---- MODULE Spec2Model ----
(***************************************************************************)
(* A model of the boids flock simulator of src/src/main.rs: the Boids      *)
(* state (Boids::new), the per-frame update handler and the draw handler.  *)
(*                                                                         *)
(* Numbers.  The program computes in f32.  The model computes on the       *)
(* integer lattice: positions, velocities, speeds and ranges are integers  *)
(* in the program's own units, the three steering factors are counted in   *)
(* quarters (FactorDen), and dt is a whole number of seconds.  A product   *)
(* or quotient that leaves the lattice is rounded to the nearest lattice   *)
(* point, as f32 rounds to the nearest representable value.  A length is   *)
(* compared with a range or a speed through the squares, which is exact.   *)
(* Vectors that lie along one axis are rescaled exactly; SpecLine keeps    *)
(* every vector on the horizontal line y = LineY, so that every value it   *)
(* reaches is the value real arithmetic gives.                             *)
(***************************************************************************)
EXTENDS Integers, Sequences, FiniteSets, TLC

VARIABLES
    BOID_COUNT,           \* the build's BOID_COUNT (fixed for a whole behaviour)
    boids,                \* Boids.boids: Vec<Boid>, indices 1..Len (the code's 0..len-1)
    boid_instance_array,  \* Boids.boid_instance_array, filled by draw
    pc,                   \* event::run's frame: "idle" before update, "update" inside its loop, "draw" before draw
    i,                    \* update's loop index, 1-based
    dt,                   \* update's dt
    steps,                \* number of update calls begun
    created,              \* history: boids as Boids::new returned them
    pre,                  \* history: boids at the start of the current update call
    turns                 \* history: one record per loop iteration of the current update

vars == <<BOID_COUNT, boids, boid_instance_array, pc, i, dt, steps, created, pre, turns>>

----------------------------------------------------------------------------
\* Bounds of the exploration
MaxBoidCount == 2
MaxSteps == 2

\* Program constants
SIMULATION_WIDTH == 800
SIMULATION_HEIGHT == 600
MARGIN == 128
BOID_START_ACCEL == 10

\* avoidance_factor, matching_factor and cohesion_factor are held in units of 1/FactorDen
FactorDen == 4

\* dt values supplied by the timer (whole seconds)
DtValues == {0, 1}

----------------------------------------------------------------------------
\* glam::Vec2 on the lattice

vec2(x, y) == [x |-> x, y |-> y]
ZERO == vec2(0, 0)
VAdd(a, b) == vec2(a.x + b.x, a.y + b.y)
VSub(a, b) == vec2(a.x - b.x, a.y - b.y)
VMul(a, k) == vec2(a.x * k, a.y * k)

Abs(n) == IF n < 0 THEN -n ELSE n
Sq(n) == n * n

\* a / b rounded to the nearest integer (b > 0), halves away from zero
RoundDiv(a, b) == IF a >= 0 THEN (2 * a + b) \div (2 * b) ELSE -((2 * (-a) + b) \div (2 * b))

VDiv(a, n) == vec2(RoundDiv(a.x, n), RoundDiv(a.y, n))

length_squared(v) == v.x * v.x + v.y * v.y

RECURSIVE FloorSqrt(_, _, _)
FloorSqrt(n, lo, hi) ==
    IF lo >= hi THEN lo
    ELSE LET mid == (lo + hi + 1) \div 2
         IN IF mid * mid <= n THEN FloorSqrt(n, mid, hi) ELSE FloorSqrt(n, lo, mid - 1)

\* sqrt(n) rounded to the nearest integer
Sqrt(n) == LET r == FloorSqrt(n, 0, 46340) IN IF n - r * r > r THEN r + 1 ELSE r

\* the resolution a length is computed at: 1/256 for short vectors, 1/16 for
\* long ones (the finest that keeps the squares within 32 bits)
Resolution(v) == IF length_squared(v) <= 32767 THEN 256 ELSE 16

\* v.length() in units of 1/Resolution(v): exact for a vector along an axis
length(v) == Sqrt(Sq(Resolution(v)) * length_squared(v))

\* v.normalize() * s.  The unit vector itself is not on the lattice, so the
\* normalisation and the scaling that always follows it are one operator.
\* v is never ZERO where the code calls normalize (see EnforceSpeed).
normalize_times(v, s) ==
    vec2(RoundDiv(v.x * s * Resolution(v), length(v)),
         RoundDiv(v.y * s * Resolution(v), length(v)))

\* v.normalize_or_zero() * s
normalize_or_zero_times(v, s) == IF v = ZERO THEN ZERO ELSE normalize_times(v, s)

\* Vec2::from_angle(angle), for the angles the model draws (degrees)
from_angle(angle) ==
    CASE angle = 0 -> vec2(1, 0)
      [] angle = 90 -> vec2(0, 1)
      [] angle = 180 -> vec2(-1, 0)
      [] angle = 270 -> vec2(0, -1)

\* vector * factor * dt for a factor held in units of 1/FactorDen
TimesFactor(v, factor, d) ==
    vec2(RoundDiv(v.x * factor * d, FactorDen), RoundDiv(v.y * factor * d, FactorDen))

\* y.atan2(x) in degrees, to the nearest multiple of 45
atan2(y, x) ==
    LET ax == Abs(x)
        ay == Abs(y)
        t == IF 12 * ay < 5 * ax THEN 0 ELSE IF 5 * ay > 12 * ax THEN 90 ELSE 45
    IN  IF x >= 0 THEN (IF y >= 0 THEN t ELSE -t)
        ELSE (IF y >= 0 THEN 180 - t ELSE t - 180)

----------------------------------------------------------------------------
\* struct Boid

Tunables == {"scale", "min_speed", "max_speed", "protected_range", "visual_range",
             "avoidance_factor", "matching_factor", "cohesion_factor", "back_to_bounds_factor"}

Boid(position, velocity, t) ==
    [position |-> position, velocity |-> velocity,
     scale |-> t.scale, min_speed |-> t.min_speed, max_speed |-> t.max_speed,
     protected_range |-> t.protected_range, visual_range |-> t.visual_range,
     avoidance_factor |-> t.avoidance_factor, matching_factor |-> t.matching_factor,
     cohesion_factor |-> t.cohesion_factor, back_to_bounds_factor |-> t.back_to_bounds_factor]

\* the values Boids::new gives every boid (factors in quarters)
DefaultTunables ==
    [scale |-> 2, min_speed |-> 10, max_speed |-> 100, protected_range |-> 20,
     visual_range |-> 100, avoidance_factor |-> 3, matching_factor |-> 4,
     cohesion_factor |-> 2, back_to_bounds_factor |-> 150]

\* The fields are plain f32 values; the model also builds flocks with
\* avoidance_factor 1, with no minimum speed, with protected_range above
\* visual_range and with min_speed above max_speed.
TunableChoices ==
    { DefaultTunables,
      [DefaultTunables EXCEPT !.avoidance_factor = 4],
      [DefaultTunables EXCEPT !.min_speed = 0],
      [DefaultTunables EXCEPT !.protected_range = 100, !.visual_range = 20],
      [DefaultTunables EXCEPT !.min_speed = 100, !.max_speed = 10] }

----------------------------------------------------------------------------
\* Boids::new

\* positions and velocities Boids::new may draw (speed below 50, inside the window)
Positions == {vec2(0, 0), vec2(10, 0), vec2(40, 30)}
Velocities == {ZERO, vec2(24, 32)}

\* the same, for flocks that start on the horizontal line y = LineY and move along it
LineY == 300
LinePositions == {vec2(100, LineY), vec2(390, LineY), vec2(400, LineY), vec2(700, LineY)}
LineVelocities == {ZERO, vec2(-40, 0)}

Boids_new(count, P, V) ==
    /\ BOID_COUNT = count
    /\ \E t \in TunableChoices :
         boids \in [1..count -> {Boid(p, v, t) : p \in P, v \in V}]
    /\ boid_instance_array = <<>>

InitWith(P, V) ==
    /\ \E count \in 1..MaxBoidCount : Boids_new(count, P, V)
    /\ pc = "idle"
    /\ i = 0
    /\ dt = 0
    /\ steps = 0
    /\ created = boids
    /\ pre = boids
    /\ turns = <<>>

Init == InitWith(Positions, Velocities)
InitLine == InitWith(LinePositions, LineVelocities)

----------------------------------------------------------------------------
\* EventHandler::update

\* self.boids.split_at_mut(k): the indices of the two slices, for a vector of n
\* boids; k is the 1-based index of the current boid (the code's i + 1)
split_at_mut(n, k) == <<[j \in 1..(k - 1) |-> j], [j \in 1..(n - k + 1) |-> k - 1 + j]>>

\* a mutant: the current boid stays in the upper slice
split_first_mut_keeps_first(s) == <<Head(s), s>>

\* boids_high.split_first_mut().unwrap()
split_first_mut(s) == <<Head(s), Tail(s)>>

\* the accumulators of one loop iteration, with the history of what the scan read
NoScan ==
    [close |-> ZERO, neighbour_position_sum |-> ZERO, neighbour_velocity_sum |-> ZERO,
     neighbours |-> 0, visited |-> <<>>, counted |-> <<>>]

\* the closure process_other_boid, called for the boid at index j
process_other_boid(acc, boid, all, j) ==
    LET other_boid == all[j]
        other_to_boid == VSub(boid.position, other_boid.position)
        visual == length_squared(other_to_boid) <= Sq(boid.visual_range)
        protected == length_squared(other_to_boid) <= Sq(boid.protected_range)
    IN  [close |-> IF protected THEN VAdd(acc.close, other_to_boid) ELSE acc.close,
         neighbour_position_sum |->
             IF visual THEN VAdd(acc.neighbour_position_sum, other_boid.position)
             ELSE acc.neighbour_position_sum,
         neighbour_velocity_sum |->
             IF visual THEN VAdd(acc.neighbour_velocity_sum, other_boid.velocity)
             ELSE acc.neighbour_velocity_sum,
         neighbours |-> IF visual THEN acc.neighbours + 1 ELSE acc.neighbours,
         visited |-> Append(acc.visited,
                            [index |-> j, position |-> other_boid.position,
                             velocity |-> other_boid.velocity]),
         counted |-> IF visual THEN Append(acc.counted, j) ELSE acc.counted]

\* for other_boid in slice.iter() { process_other_boid(other_boid) }
RECURSIVE ForEach(_, _, _, _)
ForEach(acc, boid, all, slice) ==
    IF slice = <<>> THEN acc
    ELSE ForEach(process_other_boid(acc, boid, all, Head(slice)), boid, all, Tail(slice))

\* the two scans of the iteration for the boid at index k
Scan(all, k) ==
    LET halves == split_at_mut(Len(all), k)
        boids_low == halves[1]
        rest == split_first_mut(halves[2])
        boid == all[rest[1]]
        boids_high == rest[2]
    IN  ForEach(ForEach(NoScan, boid, all, boids_low), boid, all, boids_high)

\* a mutant: cohesion and alignment are applied whatever the neighbour count
SteerAlways(boid, acc, d) ==
    LET n == IF acc.neighbours > 0 THEN acc.neighbours ELSE 1
        v1 == VAdd(boid.velocity, TimesFactor(acc.close, boid.avoidance_factor, d))
        v2 == VAdd(v1, TimesFactor(VSub(VDiv(acc.neighbour_position_sum, n), boid.position),
                                   boid.cohesion_factor, d))
    IN  VAdd(v2, TimesFactor(VDiv(acc.neighbour_velocity_sum, n), boid.matching_factor, d))

\* separation, cohesion and alignment: the velocity after lines 119-123
Steer(boid, acc, d) ==
    LET v1 == VAdd(boid.velocity, TimesFactor(acc.close, boid.avoidance_factor, d))
    IN  IF acc.neighbours > 0
        THEN LET v2 == VAdd(v1, TimesFactor(VSub(VDiv(acc.neighbour_position_sum, acc.neighbours),
                                                 boid.position),
                                            boid.cohesion_factor, d))
             IN  VAdd(v2, TimesFactor(VDiv(acc.neighbour_velocity_sum, acc.neighbours),
                                      boid.matching_factor, d))
        ELSE v1

\* a mutant: a zero velocity gets no random direction
EnforceSpeedNoStart(velocity, boid, d, angle) ==
    LET v2 == IF d > 0 /\ length_squared(velocity) < Sq(boid.min_speed)
              THEN normalize_or_zero_times(velocity, boid.min_speed) ELSE velocity
    IN  IF length_squared(v2) > Sq(boid.max_speed)
        THEN normalize_times(v2, boid.max_speed) ELSE v2

\* a mutant: the maximum is enforced under the dt > 0 guard too
EnforceSpeedMaxGuarded(velocity, boid, d, angle) ==
    LET v1 == IF d > 0 /\ velocity = ZERO
              THEN VMul(from_angle(angle), BOID_START_ACCEL * d) ELSE velocity
        v2 == IF d > 0 /\ length_squared(v1) < Sq(boid.min_speed)
              THEN normalize_or_zero_times(v1, boid.min_speed) ELSE v1
    IN  IF d > 0 /\ length_squared(v2) > Sq(boid.max_speed)
        THEN normalize_times(v2, boid.max_speed) ELSE v2

\* "Enforce min and max speed": the velocity after lines 126-138; angle is
\* the value of rng.gen::<f32>() * TAU, in degrees
EnforceSpeed(velocity, boid, d, angle) ==
    LET v1 == IF d > 0 /\ velocity = ZERO
              THEN VMul(from_angle(angle), BOID_START_ACCEL * d) ELSE velocity
        v2 == IF d > 0 /\ length_squared(v1) < Sq(boid.min_speed)
              THEN normalize_or_zero_times(v1, boid.min_speed) ELSE v1
    IN  IF length_squared(v2) > Sq(boid.max_speed)
        THEN normalize_times(v2, boid.max_speed) ELSE v2

\* "Return to bounds if out of bounds": back_to_bounds after line 154
back_to_bounds(boid) ==
    LET x == (IF boid.position.x < MARGIN THEN 1 ELSE 0)
             - (IF boid.position.x > SIMULATION_WIDTH - MARGIN THEN 1 ELSE 0)
        y == (IF boid.position.y < MARGIN THEN 1 ELSE 0)
             - (IF boid.position.y > SIMULATION_HEIGHT - MARGIN THEN 1 ELSE 0)
    IN  normalize_or_zero_times(vec2(x, y), boid.back_to_bounds_factor)

\* a mutant: the position moves against the velocity
IntegrateBackwards(position, velocity, d) == VSub(position, VMul(velocity, d))

\* a mutant: the position advances by the velocity, dt forgotten
IntegrateNoDt(position, velocity, d) == VAdd(position, velocity)

\* boid.position += boid.velocity * dt
Integrate(position, velocity, d) == VAdd(position, VMul(velocity, d))

\* let dt = context.time.delta().as_secs_f32(); the loop starts at index 0
BeginUpdate(d) ==
    /\ pc = "idle"
    /\ steps < MaxSteps
    /\ pc' = "update"
    /\ dt' = d
    /\ i' = 1
    /\ steps' = steps + 1
    /\ pre' = boids
    /\ turns' = <<>>
    /\ UNCHANGED <<BOID_COUNT, boids, boid_instance_array, created>>

\* one iteration of "for i in 0..self.boids.len()", lines 93-157
UpdateBoid(angle) ==
    /\ pc = "update"
    /\ i <= Len(boids)
    /\ LET boid == boids[i]
           acc == Scan(boids, i)
           steered == Steer(boid, acc, dt)
           governed == EnforceSpeed(steered, boid, dt, angle)
           btb == back_to_bounds(boid)
           velocity == VAdd(governed, VMul(btb, dt))
           position == Integrate(boid.position, velocity, dt)
       IN  /\ boids' = [boids EXCEPT ![i] = [@ EXCEPT !.velocity = velocity,
                                                       !.position = position]]
           /\ turns' = Append(turns,
                  [visited |-> acc.visited, counted |-> acc.counted,
                   neighbours |-> acc.neighbours, close |-> acc.close,
                   steered |-> steered, governed |-> governed, back_to_bounds |-> btb,
                   velocity |-> velocity, position |-> position])
    /\ i' = i + 1
    /\ UNCHANGED <<BOID_COUNT, boid_instance_array, pc, dt, steps, created, pre>>

\* the loop is over: Ok(()); event::run calls draw next
EndUpdate ==
    /\ pc = "update"
    /\ i > Len(boids)
    /\ pc' = "draw"
    /\ i' = 0
    /\ UNCHANGED <<BOID_COUNT, boids, boid_instance_array, dt, steps, created, pre, turns>>

----------------------------------------------------------------------------
\* EventHandler::draw

DrawParam(boid) ==
    [dest |-> boid.position,
     rotation |-> IF boid.velocity # ZERO THEN atan2(boid.velocity.y, boid.velocity.x) ELSE 0,
     scale |-> vec2(boid.scale, boid.scale)]

\* a mutant: draw also moves the boids it draws
DrawMoving ==
    /\ pc = "draw"
    /\ pc' = "idle"
    /\ boid_instance_array' = [k \in 1..Len(boids) |-> DrawParam(boids[k])]
    /\ boids' = [k \in 1..Len(boids) |->
                    [boids[k] EXCEPT !.position = VAdd(@, boids[k].velocity)]]
    /\ UNCHANGED <<BOID_COUNT, i, dt, steps, created, pre, turns>>

\* clear the instance array, push one DrawParam per boid; the frame is over
Draw ==
    /\ pc = "draw"
    /\ pc' = "idle"
    /\ boid_instance_array' = [k \in 1..Len(boids) |-> DrawParam(boids[k])]
    /\ UNCHANGED <<BOID_COUNT, boids, i, dt, steps, created, pre, turns>>

----------------------------------------------------------------------------
\* the directions the random start may take
Angles == {0, 90, 180, 270}
LineAngles == {0, 180}

\* rng.gen::<f32>() * TAU is evaluated only when the steered velocity is zero
\* and dt > 0 (line 128); otherwise the iteration draws nothing
Drawn(angles) ==
    IF /\ pc = "update"
       /\ i <= Len(boids)
       /\ dt > 0
       /\ Steer(boids[i], Scan(boids, i), dt) = ZERO
    THEN angles ELSE {0}

Next ==
    \/ \E d \in DtValues : BeginUpdate(d)
    \/ \E angle \in Drawn(Angles) : UpdateBoid(angle)
    \/ EndUpdate
    \/ Draw

Spec == Init /\ [][Next]_vars

\* flocks on the line y = LineY, whose random starts point along it
NextLine ==
    \/ \E d \in DtValues : BeginUpdate(d)
    \/ \E angle \in Drawn(LineAngles) : UpdateBoid(angle)
    \/ EndUpdate
    \/ Draw

SpecLine == InitLine /\ [][NextLine]_vars

\* SpecLine's arithmetic is exact: every vector stays on the line
OnLine ==
    \A k \in 1..Len(boids) : boids[k].position.y = LineY /\ boids[k].velocity.y = 0

----------------------------------------------------------------------------
\* Vocabulary of the properties

\* the boids that have had their turn in the current (or the last) update call
Done == 1..Len(turns)

\* a whole update call has run
FullStep == steps >= 1 /\ Len(turns) = Len(boids)

Others(k) == (1..Len(boids)) \ {k}

Distance2(p, q) == length_squared(VSub(p, q))

Min(a, b) == IF a <= b THEN a ELSE b

\* the indices the scan of boid k processed, in order
VisitedIndices(k) == [n \in 1..Len(turns[k].visited) |-> turns[k].visited[n].index]

Occurrences(seq, j) == Cardinality({n \in 1..Len(seq) : seq[n] = j})

\* no boid the scan of k read lies within k's visual range (k's own position
\* is still its pre-step position when its scan runs)
Isolated(k) ==
    \A n \in 1..Len(turns[k].visited) :
        Distance2(pre[k].position, turns[k].visited[n].position) > Sq(pre[k].visual_range)

\* the position triggers none of the four boundary conditions
InsideMargin(p) ==
    /\ p.x >= MARGIN /\ p.x <= SIMULATION_WIDTH - MARGIN
    /\ p.y >= MARGIN /\ p.y <= SIMULATION_HEIGHT - MARGIN

\* the rest state: speed exactly min_speed, no visual neighbour, no closeness, no boundary force
AtRest(k) ==
    /\ length_squared(pre[k].velocity) = Sq(pre[k].min_speed)
    /\ turns[k].neighbours = 0
    /\ turns[k].close = ZERO
    /\ InsideMargin(pre[k].position)

SameDirection(v, w) == v.x * w.y - v.y * w.x = 0 /\ v.x * w.x + v.y * w.y >= 0

----------------------------------------------------------------------------
\* C1: within one update call, every position and velocity that the scan of a
\* boid reads from another boid is that boid's value from before the call.
C1_ScanReadsPreStep ==
    \A k \in Done : \A n \in 1..Len(turns[k].visited) :
        LET e == turns[k].visited[n]
        IN  e.position = pre[e.index].position /\ e.velocity = pre[e.index].velocity

\* C2: with min_speed <= max_speed and dt > 0, the velocity right after speed
\* governance (before the boundary correction) has min_speed <= |v| <= max_speed.
C2_GovernedSpeedInBounds ==
    \A k \in Done :
        (dt > 0 /\ pre[k].min_speed <= pre[k].max_speed)
        => /\ Sq(pre[k].min_speed) <= length_squared(turns[k].governed)
           /\ length_squared(turns[k].governed) <= Sq(pre[k].max_speed)

\* C2's case: the steered velocity was the exact zero vector, dt > 0, and
\* governance brought it to min_speed > 0
C2_Witness ==
    \E k \in Done :
        /\ dt > 0
        /\ 0 < pre[k].min_speed /\ pre[k].min_speed <= pre[k].max_speed
        /\ turns[k].steered = ZERO
        /\ length_squared(turns[k].governed) = Sq(pre[k].min_speed)

\* C3: after its turn a boid's speed is at most max_speed + back_to_bounds_factor * dt.
C3_SpeedAfterStep ==
    \A k \in Done :
        length_squared(boids[k].velocity)
            <= Sq(pre[k].max_speed + pre[k].back_to_bounds_factor * dt)

\* C3's case: a full step whose boundary correction pushed a speed above max_speed
C3_Witness ==
    /\ FullStep
    /\ dt > 0
    /\ \E k \in Done :
         /\ turns[k].back_to_bounds # ZERO
         /\ length_squared(boids[k].velocity) > Sq(pre[k].max_speed)

\* C4: two boids within protected_range < visual_range, dt = 1 and
\* avoidance_factor = 1: each boid's closeness accumulator (its separation
\* term) is its pre-step position minus the other's pre-step position; for
\* A = (0,0), B = (10,0), protected_range = 20 that is (-10,0) and (10,0).
C4_SeparationOfTwo ==
    (/\ Len(boids) = 2
     /\ dt = 1
     /\ \A k \in 1..2 : /\ pre[k].avoidance_factor = FactorDen
                        /\ pre[k].protected_range < pre[k].visual_range
                        /\ Distance2(pre[1].position, pre[2].position)
                               <= Sq(pre[k].protected_range))
    => /\ \A k \in Done :
            /\ turns[k].close = VSub(pre[k].position, pre[3 - k].position)
            /\ TimesFactor(turns[k].close, pre[k].avoidance_factor, dt)
                   = VSub(pre[k].position, pre[3 - k].position)
       /\ (/\ pre[1].position = vec2(0, 0)
           /\ pre[2].position = vec2(10, 0)
           /\ pre[1].protected_range = 20
           /\ pre[2].protected_range = 20)
          => /\ (1 \in Done => turns[1].close = vec2(-10, 0))
             /\ (2 \in Done => turns[2].close = vec2(10, 0))

\* C5: two boids within min(visual_range) of each other at the start of a
\* step count each other as visual neighbours in that step.
C5_NeighbourSymmetry ==
    \A a \in Done : \A b \in Done :
        (/\ a # b
         /\ Distance2(pre[a].position, pre[b].position)
                <= Sq(Min(pre[a].visual_range, pre[b].visual_range)))
        => /\ Occurrences(turns[a].counted, b) = 1
           /\ Occurrences(turns[b].counted, a) = 1

C8_ScanVisitsOthersOnce ==
    \A k \in Done :
        /\ Occurrences(VisitedIndices(k), k) = 0
        /\ \A j \in Others(k) : Occurrences(VisitedIndices(k), j) = 1
        /\ Len(turns[k].visited) = Len(boids) - 1

\* C8's case: a full step over a flock of at least two boids
C8_Witness == FullStep /\ Len(boids) >= 2

\* C9: the vector holds BOID_COUNT boids from construction on; no update or
\* draw adds, removes or reorders a boid or changes a tunable scalar; draw
\* changes no position or velocity (each boid is as its last turn left it).
C9_FlockIsFixed ==
    /\ Len(boids) = BOID_COUNT
    /\ Len(created) = BOID_COUNT
    /\ \A k \in 1..Len(boids) : \A f \in Tunables : boids[k][f] = created[k][f]
    /\ \A k \in Done : /\ boids[k].position = turns[k].position
                       /\ boids[k].velocity = turns[k].velocity

\* C9's case: two frames (update, then draw) have run and boids have moved
C9_Witness ==
    /\ pc = "idle"
    /\ steps >= 2
    /\ Len(boid_instance_array) = BOID_COUNT
    /\ \E k \in 1..Len(boids) : boids[k].position # created[k].position

\* C10: a step with dt = 0 changes no position, and changes a velocity only
\* by rescaling one with |v| > max_speed down to max_speed.
C10_ZeroDtStep ==
    \A k \in Done :
        dt = 0
        => /\ boids[k].position = pre[k].position
           /\ (length_squared(pre[k].velocity) <= Sq(pre[k].max_speed)
               => boids[k].velocity = pre[k].velocity)
           /\ (length_squared(pre[k].velocity) > Sq(pre[k].max_speed)
               => /\ length_squared(boids[k].velocity) = Sq(pre[k].max_speed)
                  /\ SameDirection(boids[k].velocity, pre[k].velocity))

\* C10's case: a dt = 0 step rescales a velocity that an earlier step's
\* boundary correction had pushed above max_speed (Boids::new gives speeds
\* below 50, so a speed above 100 comes from a step)
C10_Witness ==
    \E k \in Done :
        /\ dt = 0
        /\ steps >= 2
        /\ pre[k].max_speed = 100
        /\ length_squared(pre[k].velocity) > Sq(pre[k].max_speed)
        /\ boids[k].velocity # pre[k].velocity

====
